---- MODULE Spec2Model ----
(***************************************************************************)
(* Model of adala/skills/base.py: BaseSkill construction (validate_inputs), *)
(* the batch executor BaseSkill.__call__, and LLMSkill.apply / analyze /   *)
(* improve.  Data frames are modelled as records of an index (row labels), *)
(* a column list and one row function per index position; pandas' label-   *)
(* aligned column assignment and concat are modelled by what they do.      *)
(***************************************************************************)
EXTENDS Integers, Sequences, FiniteSets, TLC

VARIABLES
    config,        \* keyword arguments handed to the constructor
    constructed,   \* "pending" | "ok" | "raised"
    skill,         \* the skill object, NoSkill while none exists
    apply_pc,      \* LLMSkill.apply: "idle" | "loop" | "done" | "raised"
    dataset,       \* the Dataset apply iterates
    predictions,   \* apply's local list `predictions`
    apply_result,  \* the frame apply returned
    apply_calls,   \* process_batch calls issued by the current apply
    exec_last,     \* input, backend response and outcome of the last __call__
    analyze_pc,    \* LLMSkill.analyze: "idle" | "inputs" | "reasons" | "report" | "done" | "raised"
    errors,        \* the error frame handed to analyze
    teacher,       \* teacher_runtime argument: None or <<"teacher">>
    sampled,       \* index of errors.sample(...)
    pred_err,      \* predictions_and_errors rows
    analyze_calls, \* backend calls issued by the current analyze
    report,        \* the error report analyze returned
    improve_pc,    \* LLMSkill.improve: "idle" | "called" | "done" | "raised"
    improve_pre,   \* the skill object as it was when improve was entered
    improve_calls, \* process_record calls issued by the current improve
    written        \* every complete instructions value the skill was given

vars == <<config, constructed, skill, apply_pc, dataset, predictions,
          apply_result, apply_calls, exec_last, analyze_pc, errors, teacher,
          sampled, pred_err, analyze_calls, report, improve_pc, improve_pre,
          improve_calls, written>>

applyVars == <<apply_pc, dataset, predictions, apply_result, apply_calls, exec_last>>
analyzeVars == <<analyze_pc, errors, teacher, sampled, pred_err, analyze_calls, report>>
improveVars == <<improve_pc, improve_pre, improve_calls>>
skillVars == <<config, constructed, skill, written>>

----------------------------------------------------------------------------
(* Bounds of the model *)

MaxFrameRows == 3
MaxBatches == 2
MaxErrorRows == 4

----------------------------------------------------------------------------
(* Generic helpers *)

Range(s) == {s[i] : i \in DOMAIN s}

IsInjective(s) == \A i, j \in DOMAIN s : s[i] = s[j] => i = j

Reverse(s) == [i \in 1..Len(s) |-> s[Len(s) + 1 - i]]

Front(s) == SubSeq(s, 1, Len(s) - 1)

Min(a, b) == IF a < b THEN a ELSE b

None == << >>

Some(x) == <<x>>

----------------------------------------------------------------------------
(* Skill descriptor *)

NoSkill == [none |-> TRUE]

\* Template pieces.  Raw is the five-brace placeholder "{{{{{input}}}}}",
\* Esc a four-brace escaped reference such as "{{{{date_column}}}}",
\* Ref the two-brace reference str.format leaves behind.
Lit(text) == <<"lit", text>>
Raw == <<"raw", "input">>
Esc(col) == <<"esc", col>>
Ref(col) == <<"ref", col>>

HasPlaceholder(template) == \E i \in DOMAIN template : template[i] = Raw

\* str.format(input=field): "{{{{{input}}}}}" becomes "{{field}}" and every
\* doubled brace collapses to a single one.
Format(template, field) ==
    [i \in DOMAIN template |->
        IF template[i][1] = "raw" THEN Ref(field)
        ELSE IF template[i][1] = "esc" THEN Ref(template[i][2])
        ELSE template[i]]

SystemFields == {"name", "description", "input_template", "output_template",
                 "instructions", "input_data_field", "prediction_field"}

InitialInstructions == <<1, 1>>

InstructionValues == {<<1, 1>>, <<2, 2>>}

Names == {"sentiment", "text"}

InputTemplates == {<<Lit("Input: "), Raw>>, <<Lit("Text: "), Esc("text")>>}

InputDataFields == {None, Some("text")}

Configs ==
    [name : Names,
     instructions : {InitialInstructions},
     description : {"d"},
     input_template : InputTemplates,
     output_template : {"Output: {{gen 'predictions'}}"},
     input_data_field : InputDataFields,
     prediction_field : {"predictions"},
     labels : {"pos_neg"}]

\* Variant of validate_inputs without the None test: the field is formatted in as is.
validate_inputs_no_check(cfg) ==
    IF HasPlaceholder(cfg.input_template)
    THEN [status |-> "ok",
          skill |-> [cfg EXCEPT !.input_template =
                        Format(cfg.input_template,
                               IF cfg.input_data_field = None THEN "None"
                               ELSE cfg.input_data_field[1])]]
    ELSE [status |-> "ok", skill |-> cfg]

\* BaseSkill.validate_inputs, run by pydantic after the fields are set.
validate_inputs(cfg) ==
    IF HasPlaceholder(cfg.input_template)
    THEN IF cfg.input_data_field = None
         THEN [status |-> "raised", skill |-> NoSkill]
         ELSE [status |-> "ok",
               skill |-> [cfg EXCEPT !.input_template =
                             Format(cfg.input_template, cfg.input_data_field[1])]]
    ELSE [status |-> "ok", skill |-> cfg]

\* BaseSkill._get_extra_fields: model_dump without the system fields.
_get_extra_fields(s) == [f \in (DOMAIN s) \ SystemFields |-> s[f]]

----------------------------------------------------------------------------
(* Data frames *)

NaN == <<"NaN", -1>>

NoFrame == [index |-> << >>, columns |-> << >>, rows |-> << >>]

\* The frame the dataset holds: one input column "text".
InputColumns == <<"text">>

InputFrame(idx) ==
    [index |-> idx,
     columns |-> InputColumns,
     rows |-> [i \in 1..Len(idx) |-> [c \in Range(InputColumns) |-> <<"orig", idx[i]>>]]]

\* A frame as a backend builds it: the cell of column c at label l is <<c, l>>.
BackendFrame(idx, cols) ==
    [index |-> idx,
     columns |-> cols,
     rows |-> [i \in 1..Len(idx) |-> [c \in Range(cols) |-> <<c, idx[i]>>]]]

EmptyFrame(cols) == [index |-> << >>, columns |-> cols, rows |-> << >>]

Iota(lo, n) == [i \in 1..n |-> lo + i - 1]

\* df.iloc[lo : lo + n] (1-based here)
Slice(df, lo, n) ==
    [index |-> SubSeq(df.index, lo, lo + n - 1),
     columns |-> df.columns,
     rows |-> SubSeq(df.rows, lo, lo + n - 1)]

\* DataFrame.rename(columns={old: new})
Rename(df, old, new) ==
    LET cols == [i \in DOMAIN df.columns |->
                    IF df.columns[i] = old THEN new ELSE df.columns[i]]
        src(c) == IF c = new /\ old \in Range(df.columns) THEN old ELSE c
    IN [index |-> df.index,
        columns |-> cols,
        rows |-> [i \in DOMAIN df.rows |-> [c \in Range(cols) |-> df.rows[i][src(c)]]]]

\* Series.reindex(labels)[l]: the value at label l, NaN when the label is absent.
Lookup(df, l, c) ==
    IF \E j \in DOMAIN df.index : df.index[j] = l
    THEN df.rows[CHOOSE j \in DOMAIN df.index : df.index[j] = l][c]
    ELSE NaN

AppendNew(cols, more) ==
    cols \o SelectSeq(more, LAMBDA c : c \notin Range(cols))

\* Variant of Merge that takes the rows as the backend returned them, by position.
MergeByPosition(input, rp) ==
    IF ~IsInjective(rp.columns) \/ ~IsInjective(rp.index)
    THEN [status |-> "raised", output |-> NoFrame]
    ELSE LET cols == AppendNew(input.columns, rp.columns)
         IN [status |-> "returned",
             output |->
                [index |-> rp.index,
                 columns |-> cols,
                 rows |-> [i \in DOMAIN rp.index |->
                    [c \in Range(cols) |->
                        IF c \in Range(rp.columns) THEN rp.rows[i][c]
                        ELSE IF i \in DOMAIN input.rows THEN input.rows[i][c]
                        ELSE NaN]]]]

\* output = input.copy(); output[rp.columns] = rp[rp.columns]
\* pandas assigns column by column, each aligned on the row labels of
\* output; it raises ValueError when rp's columns are not unique (key and
\* value lengths differ) or rp's index has duplicate labels (cannot reindex).
Merge(input, rp) ==
    IF ~IsInjective(rp.columns) \/ ~IsInjective(rp.index)
    THEN [status |-> "raised", output |-> NoFrame]
    ELSE LET cols == AppendNew(input.columns, rp.columns)
         IN [status |-> "returned",
             output |->
                [index |-> input.index,
                 columns |-> cols,
                 rows |-> [i \in DOMAIN input.index |->
                    [c \in Range(cols) |->
                        IF c \in Range(rp.columns)
                        THEN Lookup(rp, input.index[i], c)
                        ELSE input.rows[i][c]]]]]

\* pd.concat(frames): rows in list order, columns in order of first
\* appearance, NaN where a frame lacks a column.
RECURSIVE ConcatColumns(_)
ConcatColumns(frames) ==
    IF frames = << >> THEN << >>
    ELSE AppendNew(ConcatColumns(Front(frames)), frames[Len(frames)].columns)

RECURSIVE ConcatRows(_, _)
ConcatRows(frames, cols) ==
    IF frames = << >> THEN << >>
    ELSE LET f == frames[Len(frames)]
         IN ConcatRows(Front(frames), cols) \o
            [i \in DOMAIN f.rows |->
                [c \in Range(cols) |->
                    IF c \in Range(f.columns) THEN f.rows[i][c] ELSE NaN]]

RECURSIVE ConcatIndex(_)
ConcatIndex(frames) ==
    IF frames = << >> THEN << >>
    ELSE ConcatIndex(Front(frames)) \o frames[Len(frames)].index

InternalDataFrameConcat(frames) ==
    [index |-> ConcatIndex(frames),
     columns |-> ConcatColumns(frames),
     rows |-> ConcatRows(frames, ConcatColumns(frames))]

----------------------------------------------------------------------------
(* Datasets *)

BatchSize == 2

RECURSIVE Chunks(_, _)
Chunks(df, lo) ==
    IF lo > Len(df.index) THEN << >>
    ELSE <<Slice(df, lo, Min(BatchSize, Len(df.index) - lo + 1))>>
         \o Chunks(df, lo + BatchSize)

\* DataFrameDataset(df=frame): batch_iterator yields consecutive slices.
DataFrameDataset(df) == [df |-> df, batches |-> Chunks(df, 1)]

\* A lazy dataset of k one-row batches; its df declares the columns.
LazyDataset(k) ==
    [df |-> EmptyFrame(InputColumns),
     batches |-> [j \in 1..k |-> InputFrame(<<10 + j>>)]]

ApplyInputs ==
    {[kind |-> "frame", frame |-> InputFrame(Iota(0, n))] : n \in 0..MaxFrameRows}
    \cup {[kind |-> "dataset", ds |-> LazyDataset(k)] : k \in 0..MaxBatches}

NoDataset == [df |-> NoFrame, batches |-> << >>]

----------------------------------------------------------------------------
(* Inference backend *)

BackendError == [error |-> "BackendError"]

\* What process_batch may hand back for a batch.  Its columns are the
\* captures of the output template, with or without a score, possibly
\* echoing an input column or already holding a column named like the
\* skill.  The contract asks for the batch's rows in order; a backend
\* breaking it may reorder, drop, add or repeat rows.
ResponseColumns(s) ==
    {<<s.prediction_field>>,
     <<s.prediction_field, "score">>,
     <<"text", s.prediction_field>>,
     <<s.prediction_field, "sentiment">>}

ResponseIndexes(idx) ==
    {idx, Reverse(idx), Front(idx), idx \o <<99>>, idx \o <<idx[1]>>}

BatchResponses(s, batch) ==
    {BackendError}
    \cup {BackendFrame(batch.index, cols) : cols \in ResponseColumns(s)}
    \cup {BackendFrame(idx, <<s.prediction_field, "score">>) :
             idx \in ResponseIndexes(batch.index)}

----------------------------------------------------------------------------
(* BaseSkill.__call__ *)

\* The arguments of runtime.process_batch, read from the skill at the call.
ProcessBatchCall(s, batch) ==
    [backend |-> "student",
     op |-> "process_batch",
     batch |-> batch,
     input_template |-> s.input_template,
     output_template |-> s.output_template,
     instructions |-> s.instructions,
     extra_fields |-> _get_extra_fields(s)]

Execute(s, batch, resp) ==
    IF resp = BackendError
    THEN [status |-> "raised", output |-> NoFrame]
    ELSE Merge(batch, Rename(resp, s.prediction_field, s.name))

----------------------------------------------------------------------------
(* LLMSkill.apply *)

\* Variant of ListAppend that puts the new frame first.
ListPrepend(list, x) == <<x>> \o list

\* predictions.append(runtime_predictions)
ListAppend(list, x) == Append(list, x)

\* Variant of EmptyResult that leaves the skill's column out.
EmptyResultWithoutName(ds, s) == EmptyFrame(ds.df.columns)

\* InternalDataFrame(columns=dataset.df.columns.tolist() + [self.name])
EmptyResult(ds, s) == EmptyFrame(ds.df.columns \o <<s.name>>)

\* The tail of apply: concat of the collected frames, or the empty frame.
ApplyResult(ds, s, frames) ==
    IF frames # << >> THEN InternalDataFrameConcat(frames) ELSE EmptyResult(ds, s)

----------------------------------------------------------------------------
(* LLMSkill.analyze *)

MAX_ERRORS == 3

RECURSIVE InjectiveSeqs(_, _)
\* Every sequence of n distinct elements of S.
InjectiveSeqs(S, n) ==
    IF n = 0 THEN {<< >>}
    ELSE UNION {{Append(p, x) : x \in S \ Range(p)} : p \in InjectiveSeqs(S, n - 1)}

\* The rows of df at the positions pos, in that order.
Take(df, pos) ==
    [index |-> [i \in DOMAIN pos |-> df.index[pos[i]]],
     columns |-> df.columns,
     rows |-> [i \in DOMAIN pos |-> df.rows[pos[i]]]]

\* Variant of SampleSize without the MAX_ERRORS cap.
SampleSizeUnbounded(n) == n

\* n=min(MAX_ERRORS, errors.shape[0])
SampleSize(n) == Min(MAX_ERRORS, n)

\* DataFrame.sample(n): n rows drawn without replacement, in drawn order.
Samples(df, n) == {Take(df, pos) : pos \in InjectiveSeqs(DOMAIN df.index, n)}

\* df.loc[labels] on a frame with unique labels.
Loc(df, labels) ==
    [index |-> labels,
     columns |-> df.columns,
     rows |-> [i \in DOMAIN labels |->
                 df.rows[CHOOSE j \in DOMAIN df.index : df.index[j] = labels[i]]]]

\* The predictions frame a caller hands to analyze: what apply returns for
\* an n-row frame when the backend keeps its contract.
AnalyzePredictions(s, n) ==
    Merge(InputFrame(Iota(0, n)),
          Rename(BackendFrame(Iota(0, n), <<s.prediction_field>>),
                 s.prediction_field, s.name)).output

\* The error frames a caller may hand over: any rows of the predictions,
\* the skill's column first and the ground truth last.
ErrorFrames(s) ==
    {[index |-> idx,
      columns |-> <<s.name, "ground_truth">>,
      rows |-> [i \in DOMAIN idx |->
                  [c \in {s.name, "ground_truth"} |->
                      IF c = "ground_truth" THEN <<"gt", idx[i]>>
                      ELSE <<s.prediction_field, idx[i]>>]]] :
        idx \in {SelectSeq(Iota(0, MaxErrorRows), LAMBDA l : l \in S) :
                    S \in SUBSET (0..(MaxErrorRows - 1))}}

Teachers == {None, Some("teacher")}

\* Variant of TeacherOf that ignores the teacher argument.
TeacherAlwaysStudent(tch) == "student"

\* if not teacher_runtime: teacher_runtime = student_runtime
TeacherOf(tch) == IF tch = None THEN "student" ELSE tch[1]

\* pd.concat([inputs, predictions[name].loc[idx], errors[gt]], axis=1) with
\* the columns then named input, prediction, ground_truth: rows are joined
\* on their labels.
PredictionsAndErrors(inputs, preds, errs, name) ==
    LET gt == errs.columns[Len(errs.columns)]
        sel == Loc(preds, errs.index)
        idx == AppendNew(AppendNew(inputs.index, sel.index), errs.index)
    IN [index |-> idx,
        columns |-> <<"input", "prediction", "ground_truth">>,
        rows |-> [i \in DOMAIN idx |->
            [c \in {"input", "prediction", "ground_truth"} |->
                IF c = "input" THEN Lookup(inputs, idx[i], inputs.columns[1])
                ELSE IF c = "prediction" THEN Lookup(sel, idx[i], name)
                ELSE Lookup(errs, idx[i], gt)]]]

\* predictions_and_errors['reason'] = error_reasons['reason']
WithReason(pe, reasons) ==
    [index |-> pe.index,
     columns |-> AppendNew(pe.columns, <<"reason">>),
     rows |-> [i \in DOMAIN pe.index |->
        [c \in Range(pe.columns) \cup {"reason"} |->
            IF c = "reason" THEN Lookup(reasons, pe.index[i], "reason")
            ELSE pe.rows[i][c]]]]

\* student_runtime.process_batch(batch=predictions.loc[errors.index], ...)
FormatCall(s, batch) ==
    [backend |-> "student",
     op |-> "process_batch",
     purpose |-> "input",
     batch |-> batch,
     input_template |-> s.input_template,
     extra_fields |-> _get_extra_fields(s)]

\* teacher_runtime.process_batch(batch=predictions_and_errors, ...)
ReasonCall(s, tch, batch) ==
    [backend |-> TeacherOf(tch),
     op |-> "process_batch",
     purpose |-> "reason",
     batch |-> batch,
     instructions |-> s.instructions,
     extra_fields |-> _get_extra_fields(s)]

\* teacher_runtime.process_record(record={'predictions_and_errors': ...})
ReportCall(tch, pe) ==
    [backend |-> TeacherOf(tch),
     op |-> "process_record",
     purpose |-> "report",
     record |-> [predictions_and_errors |-> pe.rows]]

\* A backend keeping its contract answers a batch row for row, in order.
FormatResponses(batch) == {BackendError, BackendFrame(batch.index, <<"input">>)}

ReasonResponses(batch) == {BackendError, BackendFrame(batch.index, <<"reason">>)}

ReportResponses(rows) == {BackendError, [text |-> <<"report", Len(rows)>>]}

NoReport == <<"none", 0>>

----------------------------------------------------------------------------
(* LLMSkill.improve *)

\* Variant of SetInstructions that replaces only the first character.
SetInstructionsTorn(s, value) ==
    [s EXCEPT !.instructions = <<value[1]>> \o Tail(s.instructions)]

\* Variant of SetInstructions that also rewrites the description.
SetInstructionsAndDescription(s, value) ==
    [s EXCEPT !.instructions = value, !.description = "improved"]

\* self.instructions = result['new_instruction']
SetInstructions(s, value) == [s EXCEPT !.instructions = value]

\* Variant of ImproveOutcome that clears the instructions when the call fails.
ImproveOutcomeEager(s, resp) ==
    IF resp = BackendError
    THEN [status |-> "raised", skill |-> SetInstructions(s, << >>)]
    ELSE [status |-> "done", skill |-> SetInstructions(s, resp.new_instruction)]

\* What follows runtime.process_record in improve: an exception leaves the
\* method before the assignment, a result is assigned.
ImproveOutcome(s, resp) ==
    IF resp = BackendError
    THEN [status |-> "raised", skill |-> s]
    ELSE [status |-> "done", skill |-> SetInstructions(s, resp.new_instruction)]

\* The analysis reports a caller may hand to improve.
ErrorAnalyses == {<<"report", 1>>}

ImproveResponses ==
    {BackendError} \cup {[new_instruction |-> v] : v \in InstructionValues}

----------------------------------------------------------------------------
(* Initial state and actions *)

applyInit ==
    /\ apply_pc = "idle"
    /\ dataset = NoDataset
    /\ predictions = << >>
    /\ apply_result = NoFrame
    /\ apply_calls = << >>
    /\ exec_last = [status |-> "none"]

analyzeInit ==
    /\ analyze_pc = "idle"
    /\ errors = NoFrame
    /\ teacher = None
    /\ sampled = NoFrame
    /\ pred_err = NoFrame
    /\ analyze_calls = << >>
    /\ report = NoReport

improveInit ==
    /\ improve_pc = "idle"
    /\ improve_pre = NoSkill
    /\ improve_calls = << >>

Init ==
    /\ config \in Configs
    /\ constructed = "pending"
    /\ skill = NoSkill
    /\ written = {}
    /\ applyInit
    /\ analyzeInit
    /\ improveInit

\* LLMSkill(**config): the fields are set and validate_inputs runs.
Construct ==
    /\ constructed = "pending"
    /\ LET r == validate_inputs(config)
       IN /\ constructed' = r.status
          /\ skill' = r.skill
          /\ written' = IF r.status = "ok" THEN {r.skill.instructions} ELSE {}
    /\ UNCHANGED <<config, applyVars, analyzeVars, improveVars>>

Finished(pc) == pc \in {"done", "raised"}

\* apply is entered: the list is emptied and a frame is wrapped.
ApplyStart(input) ==
    /\ skill # NoSkill
    /\ apply_pc = "idle" /\ analyze_pc = "idle"
    /\ apply_pc' = "loop"
    /\ dataset' = IF input.kind = "frame" THEN DataFrameDataset(input.frame)
                  ELSE input.ds
    /\ predictions' = << >>
    /\ apply_result' = NoFrame
    /\ apply_calls' = << >>
    /\ exec_last' = [status |-> "none"]
    /\ UNCHANGED <<skillVars, analyzeVars, improveVars>>

\* One turn of the loop: self(batch, runtime, dataset), then append.
ApplyBatch(resp) ==
    /\ apply_pc = "loop"
    /\ Len(predictions) < Len(dataset.batches)
    /\ LET batch == dataset.batches[Len(predictions) + 1]
           r == Execute(skill, batch, resp)
       IN /\ apply_calls' = Append(apply_calls, ProcessBatchCall(skill, batch))
          /\ exec_last' = [status |-> r.status, input |-> batch,
                           response |-> resp, output |-> r.output]
          /\ IF r.status = "raised"
             THEN /\ apply_pc' = "raised"
                  /\ UNCHANGED predictions
             ELSE /\ predictions' = ListAppend(predictions, r.output)
                  /\ UNCHANGED apply_pc
    /\ UNCHANGED <<dataset, apply_result, skillVars, analyzeVars, improveVars>>

ApplyBatchStep ==
    /\ apply_pc = "loop"
    /\ Len(predictions) < Len(dataset.batches)
    /\ \E resp \in BatchResponses(skill, dataset.batches[Len(predictions) + 1]) :
        ApplyBatch(resp)

\* The iterator is exhausted: concat, or the empty frame.
ApplyReturn ==
    /\ apply_pc = "loop"
    /\ Len(predictions) = Len(dataset.batches)
    /\ apply_pc' = "done"
    /\ apply_result' = ApplyResult(dataset, skill, predictions)
    /\ UNCHANGED <<dataset, predictions, apply_calls, exec_last, skillVars,
                   analyzeVars, improveVars>>

ProcessRecordImprove(s, analysis) ==
    [backend |-> "teacher",
     op |-> "process_record",
     record |-> [error_analysis |-> analysis],
     old_instructions |-> s.instructions,
     extra_fields |-> _get_extra_fields(s)]

\* improve is entered and runtime.process_record is called.
ImproveStart(analysis) ==
    /\ skill # NoSkill
    /\ improve_pc = "idle" /\ analyze_pc = "idle"
    /\ improve_pc' = "called"
    /\ improve_pre' = skill
    /\ improve_calls' = <<ProcessRecordImprove(skill, analysis)>>
    /\ UNCHANGED <<skillVars, applyVars, analyzeVars>>

\* The backend call of improve ends, by a result or by an exception.
ImproveReturn(resp) ==
    /\ improve_pc = "called"
    /\ LET r == ImproveOutcome(skill, resp)
       IN /\ improve_pc' = r.status
          /\ skill' = r.skill
          /\ written' = IF resp = BackendError THEN written
                        ELSE written \cup {resp.new_instruction}
    /\ UNCHANGED <<config, constructed, improve_pre, improve_calls, applyVars,
                   analyzeVars>>

ImproveReturnStep == \E resp \in ImproveResponses : ImproveReturn(resp)

\* analyze is entered: the errors are sampled and the student backend is
\* asked to expand the input template over the sampled prediction rows.
AnalyzeStart(errs, tch, sample) ==
    /\ skill # NoSkill
    /\ analyze_pc = "idle" /\ apply_pc = "idle" /\ improve_pc = "idle"
    /\ analyze_pc' = "inputs"
    /\ errors' = errs
    /\ teacher' = tch
    /\ sampled' = sample
    /\ pred_err' = NoFrame
    /\ report' = NoReport
    /\ analyze_calls' =
          <<FormatCall(skill, Loc(AnalyzePredictions(skill, MaxErrorRows), sample.index))>>
    /\ UNCHANGED <<skillVars, applyVars, improveVars>>

AnalyzeStartStep ==
    /\ skill # NoSkill
    /\ analyze_pc = "idle" /\ apply_pc = "idle" /\ improve_pc = "idle"
    /\ \E errs \in ErrorFrames(skill), tch \in Teachers :
          \E sample \in Samples(errs, SampleSize(Len(errs.index))) :
              AnalyzeStart(errs, tch, sample)

\* The expanded inputs arrive: the comparison table is assembled and the
\* teacher is asked for the reasons.
AnalyzeInputs(resp) ==
    /\ analyze_pc = "inputs"
    /\ IF resp = BackendError
       THEN /\ analyze_pc' = "raised"
            /\ UNCHANGED <<pred_err, analyze_calls>>
       ELSE LET pe == PredictionsAndErrors(resp,
                          AnalyzePredictions(skill, MaxErrorRows), sampled, skill.name)
            IN /\ analyze_pc' = "reasons"
               /\ pred_err' = pe
               /\ analyze_calls' = Append(analyze_calls, ReasonCall(skill, teacher, pe))
    /\ UNCHANGED <<errors, teacher, sampled, report, skillVars, applyVars, improveVars>>

AnalyzeInputsStep ==
    /\ analyze_pc = "inputs"
    /\ \E resp \in FormatResponses(analyze_calls[1].batch) : AnalyzeInputs(resp)

\* The reasons arrive: they are added as a column and the teacher is asked
\* for the report over all the rows.
AnalyzeReasons(resp) ==
    /\ analyze_pc = "reasons"
    /\ IF resp = BackendError
       THEN /\ analyze_pc' = "raised"
            /\ UNCHANGED <<pred_err, analyze_calls>>
       ELSE LET pe == WithReason(pred_err, resp)
            IN /\ analyze_pc' = "report"
               /\ pred_err' = pe
               /\ analyze_calls' = Append(analyze_calls, ReportCall(teacher, pe))
    /\ UNCHANGED <<errors, teacher, sampled, report, skillVars, applyVars, improveVars>>

AnalyzeReasonsStep ==
    /\ analyze_pc = "reasons"
    /\ \E resp \in ReasonResponses(pred_err) : AnalyzeReasons(resp)

\* The report arrives and is returned.
AnalyzeReport(resp) ==
    /\ analyze_pc = "report"
    /\ IF resp = BackendError
       THEN /\ analyze_pc' = "raised"
            /\ UNCHANGED report
       ELSE /\ analyze_pc' = "done"
            /\ report' = resp.text
    /\ UNCHANGED <<errors, teacher, sampled, pred_err, analyze_calls, skillVars,
                   applyVars, improveVars>>

AnalyzeReportStep ==
    /\ analyze_pc = "report"
    /\ \E resp \in ReportResponses(pred_err.rows) : AnalyzeReport(resp)

\* The caller has taken the outcome of a finished call (its result or its
\* exception); the call's locals are gone.
ApplyForget ==
    /\ Finished(apply_pc)
    /\ apply_pc' = "idle"
    /\ dataset' = NoDataset
    /\ predictions' = << >>
    /\ apply_result' = NoFrame
    /\ apply_calls' = << >>
    /\ exec_last' = [status |-> "none"]
    /\ UNCHANGED <<skillVars, analyzeVars, improveVars>>

AnalyzeForget ==
    /\ Finished(analyze_pc)
    /\ analyze_pc' = "idle"
    /\ errors' = NoFrame
    /\ teacher' = None
    /\ sampled' = NoFrame
    /\ pred_err' = NoFrame
    /\ analyze_calls' = << >>
    /\ report' = NoReport
    /\ UNCHANGED <<skillVars, applyVars, improveVars>>

ImproveForget ==
    /\ Finished(improve_pc)
    /\ improve_pc' = "idle"
    /\ improve_pre' = NoSkill
    /\ improve_calls' = << >>
    /\ UNCHANGED <<skillVars, applyVars, analyzeVars>>

Next ==
    \/ Construct
    \/ \E input \in ApplyInputs : ApplyStart(input)
    \/ ApplyBatchStep
    \/ ApplyReturn
    \/ \E analysis \in ErrorAnalyses : ImproveStart(analysis)
    \/ ImproveReturnStep
    \/ AnalyzeStartStep
    \/ AnalyzeInputsStep
    \/ AnalyzeReasonsStep
    \/ AnalyzeReportStep
    \/ ApplyForget
    \/ AnalyzeForget
    \/ ImproveForget

Spec == Init /\ [][Next]_vars

----------------------------------------------------------------------------
(* Properties *)

Misconfigured ==
    HasPlaceholder(config.input_template) /\ config.input_data_field = None

\* C1: a configuration whose input_template holds the raw-input placeholder
\* while input_data_field is None never yields a skill object: construction
\* raises, and so no operation runs and no backend call is ever issued.
C1_MisconfiguredConstructionFails ==
    (Misconfigured /\ constructed # "pending") =>
        /\ constructed = "raised"
        /\ skill = NoSkill
        /\ apply_pc = "idle" /\ analyze_pc = "idle" /\ improve_pc = "idle"
        /\ apply_calls = << >> /\ analyze_calls = << >> /\ improve_calls = << >>

C1_Witness == Misconfigured /\ constructed = "raised"

\* C2: when the dataset yields no batch, apply returns a frame without rows
\* whose columns are the dataset's columns followed by the skill's name, and
\* issues no backend call.
C2_EmptyDatasetResult ==
    (apply_pc = "done" /\ dataset.batches = << >>) =>
        /\ apply_result.index = << >>
        /\ apply_result.rows = << >>
        /\ apply_result.columns = dataset.df.columns \o <<skill.name>>
        /\ apply_calls = << >>

C2_Witness ==
    /\ apply_pc = "done"
    /\ dataset.batches = << >>
    /\ apply_result.columns = <<"text", "sentiment">>

\* C3: a completed improve leaves every field of the skill other than
\* instructions, the extra configuration fields included, as it was when
\* improve was entered.
C3_ImproveChangesOnlyInstructions ==
    improve_pc = "done" =>
        /\ DOMAIN skill = DOMAIN improve_pre
        /\ \A f \in (DOMAIN improve_pre) \ {"instructions"} : skill[f] = improve_pre[f]

C3_Witness ==
    /\ improve_pc = "done"
    /\ skill.instructions # improve_pre.instructions

\* C4: a step in which apply, analyze or improve ends by raising leaves the
\* skill as it was, and the skill changes only in the step in which
\* improve's backend call returns a result.
C4_FailureLeavesSkillUntouched ==
    [][/\ ((\/ apply_pc # "raised" /\ apply_pc' = "raised"
            \/ analyze_pc # "raised" /\ analyze_pc' = "raised"
            \/ improve_pc # "raised" /\ improve_pc' = "raised")
           => skill' = skill)
       /\ ((constructed = "ok" /\ skill' # skill)
           => improve_pc = "called" /\ improve_pc' = "done")]_vars

C4_Witness ==
    /\ improve_pc = "raised"
    /\ skill = improve_pre
    /\ apply_pc = "raised"
    /\ exec_last.response = BackendError

IsPrefix(s, t) == Len(s) <= Len(t) /\ SubSeq(t, 1, Len(s)) = s

\* C5 as stated: the batch the executor returns has the input's rows in
\* order and every original column unchanged, and only the prediction
\* column, named like the skill, is added or overwritten.
C5_OnlyPredictionColumnTouched ==
    exec_last.status = "returned" =>
        LET in == exec_last.input
            out == exec_last.output
        IN /\ out.index = in.index
           /\ IsPrefix(in.columns, out.columns)
           /\ Range(out.columns) \subseteq Range(in.columns) \cup {skill.name}
           /\ \A c \in Range(in.columns) \ {skill.name} :
                 \A i \in DOMAIN in.rows : out.rows[i][c] = in.rows[i][c]

\* C5 amended: the batch the executor returns has the input's rows in order
\* and, unchanged, every original column the backend did not return; the
\* columns added or overwritten are exactly the backend's columns, with
\* prediction_field renamed to the skill's name, each holding the backend's
\* value for the row of the same label and NaN where it returned none.
C5_MergeKeepsRowsAndOtherColumns ==
    exec_last.status = "returned" =>
        LET in == exec_last.input
            out == exec_last.output
            resp == exec_last.response
            pf == skill.prediction_field
            given == {IF c = pf THEN skill.name ELSE c : c \in Range(resp.columns)}
            src(c) == IF c = skill.name /\ pf \in Range(resp.columns) THEN pf ELSE c
        IN /\ out.index = in.index
           /\ IsPrefix(in.columns, out.columns)
           /\ IsInjective(out.columns)
           /\ Range(out.columns) = Range(in.columns) \cup given
           /\ \A i \in DOMAIN in.rows :
                 /\ \A c \in Range(in.columns) \ given : out.rows[i][c] = in.rows[i][c]
                 /\ \A c \in given :
                       out.rows[i][c] =
                          IF in.index[i] \in Range(resp.index)
                          THEN <<src(c), in.index[i]>>
                          ELSE NaN

C5_Witness ==
    /\ exec_last.status = "returned"
    /\ "score" \in Range(exec_last.output.columns)
    /\ Len(exec_last.input.index) > 1
    /\ exec_last.response.index = Reverse(exec_last.input.index)
    /\ skill.name = "text"

\* C6 as stated: when the backend returns a batch whose row count differs
\* from the input's, the executor raises and returns no merged batch.
C6_RowCountMismatchRaises ==
    (/\ exec_last.status # "none"
     /\ exec_last.response # BackendError
     /\ Len(exec_last.response.index) # Len(exec_last.input.index))
        => exec_last.status = "raised"

RECURSIVE RowsBefore(_, _)
\* The number of rows in the batches before the i-th.
RowsBefore(batches, i) ==
    IF i <= 1 THEN 0 ELSE RowsBefore(batches, i - 1) + Len(batches[i - 1].index)

\* C7: a completed apply has called the executor once per batch, in the
\* dataset's order, and its result is the per-batch results one after the
\* other in that order.
C7_ApplyConcatenatesInBatchOrder ==
    apply_pc = "done" =>
        /\ Len(apply_calls) = Len(dataset.batches)
        /\ \A i \in DOMAIN apply_calls : apply_calls[i].batch = dataset.batches[i]
        /\ Len(predictions) = Len(dataset.batches)
        /\ \A i \in DOMAIN predictions : predictions[i].index = dataset.batches[i].index
        /\ dataset.batches # << >> =>
              /\ apply_result.index = ConcatIndex(dataset.batches)
              /\ \A i \in DOMAIN predictions :
                    \A k \in DOMAIN predictions[i].rows :
                       LET n == RowsBefore(dataset.batches, i) + k
                       IN /\ n \in DOMAIN apply_result.rows
                          /\ apply_result.index[n] = dataset.batches[i].index[k]
                          /\ \A c \in Range(predictions[i].columns) :
                                apply_result.rows[n][c] = predictions[i].rows[k][c]

C7_Witness ==
    /\ apply_pc = "done"
    /\ Len(dataset.batches) > 1
    /\ Len(apply_result.index) > Len(dataset.batches)

\* C8: the sample analyze draws holds min(MAX_ERRORS, |errors|) rows, each a
\* different row of the error frame; an empty error frame gives an empty
\* sample.
C8_SampleSizeBound ==
    analyze_pc # "idle" =>
        /\ Len(sampled.index) =
              (IF Len(errors.index) < MAX_ERRORS THEN Len(errors.index) ELSE MAX_ERRORS)
        /\ Len(sampled.index) <= MAX_ERRORS
        /\ IsInjective(sampled.index)
        /\ \A i \in DOMAIN sampled.index :
              \E j \in DOMAIN errors.index :
                 /\ errors.index[j] = sampled.index[i]
                 /\ errors.rows[j] = sampled.rows[i]
        /\ errors.index = << >> => sampled.index = << >> /\ sampled.rows = << >>

C8_Witness ==
    /\ analyze_pc = "done"
    /\ Len(errors.index) > MAX_ERRORS
    /\ Len(sampled.index) = MAX_ERRORS

CallsFor(purpose) == {i \in DOMAIN analyze_calls : analyze_calls[i].purpose = purpose}

\* C9: analyze asks the teacher backend, or the student backend when no
\* teacher is given, for the reasons of exactly the sampled rows, and then
\* asks it once for the report, handing over one list with the input,
\* prediction, ground truth and reason of every sampled row.
C9_OneAggregatingCallAfterReasons ==
    LET asked == IF teacher = None THEN "student" ELSE teacher[1]
    IN /\ Cardinality(CallsFor("report")) <= 1
       /\ Cardinality(CallsFor("reason")) <= 1
       /\ \A i \in CallsFor("reason") :
             /\ analyze_calls[i].backend = asked
             /\ analyze_calls[i].op = "process_batch"
             /\ analyze_calls[i].batch.index = sampled.index
       /\ \A i \in CallsFor("report") :
             /\ analyze_calls[i].backend = asked
             /\ analyze_calls[i].op = "process_record"
             /\ \E j \in CallsFor("reason") : j < i
             /\ analyze_pc \in {"report", "done", "raised"}
             /\ LET list == analyze_calls[i].record.predictions_and_errors
                IN /\ Len(list) = Len(sampled.index)
                   /\ \A k \in DOMAIN list :
                         list[k] = [input |-> <<"input", sampled.index[k]>>,
                                    prediction |-> <<skill.prediction_field, sampled.index[k]>>,
                                    ground_truth |-> <<"gt", sampled.index[k]>>,
                                    reason |-> <<"reason", sampled.index[k]>>]
       /\ analyze_pc = "done" =>
             Cardinality(CallsFor("report")) = 1 /\ Cardinality(CallsFor("reason")) = 1

C9_Witness ==
    /\ analyze_pc = "done"
    /\ teacher # None
    /\ Len(sampled.index) = MAX_ERRORS
    /\ Cardinality(CallsFor("report")) = 1

\* C10: whatever an improve is doing meanwhile, the instructions an apply
\* hands to the backend are a complete value the skill was given: the one
\* from before an improve or the one an improve wrote.
C10_ApplyReadsWholeInstructions ==
    \A i \in DOMAIN apply_calls : apply_calls[i].instructions \in written

C10_Witness ==
    /\ improve_pc = "done"
    /\ \E i, j \in DOMAIN apply_calls :
          /\ i < j
          /\ apply_calls[i].instructions = improve_pre.instructions
          /\ apply_calls[j].instructions = skill.instructions
          /\ apply_calls[i].instructions # apply_calls[j].instructions

====
